---------------------------- MODULE Spec2Model ----------------------------
(***************************************************************************)
(* Semantic retrieval subsystem of the clip annotation tool:               *)
(* semantic_search.py (projection, embedding cache file, cosine ranking,   *)
(* search, rebuild), the two HTTP handlers of media_server.py that call    *)
(* it, and the clip table of analytics_db.py it reads.                     *)
(***************************************************************************)
EXTENDS Integers, Sequences, FiniteSets, TLC

(***************************************************************************)
(* Bounds of the model.                                                    *)
(***************************************************************************)
MaxClips == 2
MaxTopK == 1
MaxCorpus == 3
MaxLongCorpus == 7
MaxFields == 2
MaxPairFields == 1

IdSeq == <<"c1", "c2", "c3", "c4", "c5">>
Ids == {IdSeq[i] : i \in 1..MaxClips}
TopKs == (0 - 1)..MaxTopK

\* Embedding vectors the provider may return (two dimensions, components 0/1).
\* With these components the float computation of cosine_similarity orders
\* and ties scores exactly as the real numbers do.
Vecs == {<<0, 0>>, <<1, 0>>, <<1, 1>>}

\* Query strings a caller may send, as character sequences: empty,
\* whitespace only, and a word with surrounding whitespace.
Queries == {<<>>, <<" ", " ">>, <<" ", "d", " ">>}

(***************************************************************************)
(* Clip records: a row of the clips table, a dict column -> value.  A      *)
(* value is None, an int or a str.                                         *)
(***************************************************************************)
None == [k |-> "none"]
IntV(i) == [k |-> "int", i |-> i]
StrV(s) == [k |-> "str", s |-> s]

\* Python truthiness of a column value: None, 0 and "" are false.
Truthy(v) ==
    CASE v.k = "none" -> FALSE
      [] v.k = "int" -> v.i # 0
      [] v.k = "str" -> v.s # ""

\* str() of a column value inside an f-string.
Str(v) ==
    CASE v.k = "none" -> "None"
      [] v.k = "int" -> ToString(v.i)
      [] v.k = "str" -> v.s

ProjFields ==
    <<"game_id", "opponent", "quarter", "possession", "situation", "formation",
      "play_name", "play_trigger", "action_trigger", "action_types",
      "action_sequence", "scout_coverage", "coverage", "ball_screen",
      "off_ball_screen", "help_rotation", "disruption", "breakdown", "result",
      "shooter", "shot_location", "shot_result", "points", "rebound",
      "contest", "paint_touch", "notes">>

FieldNames == {ProjFields[i] : i \in 1..Len(ProjFields)}

\* clip.get(f): the value of column f, None when the key is missing.
Get(clip, f) == IF f \in DOMAIN clip.cols THEN clip.cols[f] ELSE None

\* Mutant: the segment is appended without the "if clip.get(f)" test.
Part_AlwaysAppends(clip, f, pre, post) == <<pre \o Str(Get(clip, f)) \o post>>

\* One "if clip.get(f): parts.append(...)" statement of the projection.
Part(clip, f, pre, post) ==
    IF Truthy(Get(clip, f)) THEN <<pre \o Str(Get(clip, f)) \o post>> ELSE <<>>

\* Mutant: the legacy alias is read first.
trigger_value_AliasFirst(clip) ==
    IF Truthy(Get(clip, "action_trigger")) THEN Get(clip, "action_trigger")
    ELSE Get(clip, "play_trigger")

\* trigger_value = clip.get('play_trigger') or clip.get('action_trigger')
trigger_value(clip) ==
    IF Truthy(Get(clip, "play_trigger")) THEN Get(clip, "play_trigger")
    ELSE Get(clip, "action_trigger")

TriggerPart(clip) ==
    IF Truthy(trigger_value(clip))
    THEN <<"Trigger: " \o Str(trigger_value(clip))>> ELSE <<>>

\* The list "parts" built by get_clip_text_representation.
Parts(clip) ==
    Part(clip, "game_id", "Game ", "") \o
    Part(clip, "opponent", "vs ", "") \o
    Part(clip, "quarter", "Q", "") \o
    Part(clip, "possession", "Possession ", "") \o
    Part(clip, "situation", "Situation: ", "") \o
    Part(clip, "formation", "Formation: ", "") \o
    Part(clip, "play_name", "Play: ", "") \o
    TriggerPart(clip) \o
    Part(clip, "action_types", "Actions: ", "") \o
    Part(clip, "action_sequence", "Sequence: ", "") \o
    Part(clip, "scout_coverage", "Scout Coverage: ", "") \o
    Part(clip, "coverage", "Coverage: ", "") \o
    Part(clip, "ball_screen", "Ball Screen: ", "") \o
    Part(clip, "off_ball_screen", "Off Ball Screen: ", "") \o
    Part(clip, "help_rotation", "Help: ", "") \o
    Part(clip, "disruption", "Disruption: ", "") \o
    Part(clip, "breakdown", "Breakdown: ", "") \o
    Part(clip, "result", "Result: ", "") \o
    Part(clip, "shooter", "Shooter: ", "") \o
    Part(clip, "shot_location", "Shot Location: ", "") \o
    Part(clip, "shot_result", "Shot Result: ", "") \o
    Part(clip, "points", "", " points") \o
    Part(clip, "rebound", "Rebound: ", "") \o
    Part(clip, "contest", "Contest: ", "") \o
    Part(clip, "paint_touch", "Paint Touch: ", "") \o
    Part(clip, "notes", "Notes: ", "")

RECURSIVE Join(_, _)
\* sep.join(parts)
Join(sep, parts) ==
    IF parts = <<>> THEN ""
    ELSE IF Len(parts) = 1 THEN parts[1]
    ELSE parts[1] \o sep \o Join(sep, Tail(parts))

\* Mutant: the text also carries the clip's id.
get_clip_text_representation_WithId(clip) ==
    clip.id \o ": " \o Join(" | ", Parts(clip))

get_clip_text_representation(clip) == Join(" | ", Parts(clip))

(***************************************************************************)
(* Cosine similarity.  A score is kept as the dot product together with    *)
(* the two squared norms; it is NaN when a norm is zero (numpy divides     *)
(* 0.0 by 0.0 with a warning, not an exception).                           *)
(***************************************************************************)
Dot(a, b) == a[1] * b[1] + a[2] * b[2]

cosine_similarity(vec1, vec2) ==
    [dot |-> Dot(vec1, vec2), n1 |-> Dot(vec1, vec1), n2 |-> Dot(vec2, vec2)]

IsNaN(s) == s.n1 * s.n2 = 0

Abs(x) == IF x < 0 THEN 0 - x ELSE x

\* a < b on floats: false when either side is NaN; otherwise
\* dot_a/sqrt(na) < dot_b/sqrt(nb), decided on sign-preserving squares.
ScoreLT(a, b) ==
    /\ ~IsNaN(a)
    /\ ~IsNaN(b)
    /\ a.dot * Abs(a.dot) * (b.n1 * b.n2) < b.dot * Abs(b.dot) * (a.n1 * a.n2)

\* a == b on floats (false when either side is NaN).
ScoreEQ(a, b) ==
    /\ ~IsNaN(a)
    /\ ~IsNaN(b)
    /\ a.dot * Abs(a.dot) * (b.n1 * b.n2) = b.dot * Abs(b.dot) * (a.n1 * a.n2)

IsZero(s) == ~IsNaN(s) /\ s.dot = 0
IsPositive(s) == ~IsNaN(s) /\ s.dot > 0


(***************************************************************************)
(* list.sort(key=lambda x: x[1], reverse=True) as CPython runs it on a     *)
(* list shorter than 64 items: reverse, find the leading run, binary       *)
(* insertion of the rest (only "<" on keys is used), reverse again.        *)
(* Items are <<clip_id, similarity>> pairs.                                *)
(***************************************************************************)
Reverse(s) == [i \in 1..Len(s) |-> s[Len(s) + 1 - i]]

KeyLT(x, y) == ScoreLT(x[2], y[2])

RECURSIVE DescRun(_, _)
DescRun(a, i) ==
    IF i <= Len(a) /\ KeyLT(a[i], a[i - 1]) THEN DescRun(a, i + 1) ELSE i - 1

RECURSIVE AscRun(_, _)
AscRun(a, i) ==
    IF i <= Len(a) /\ ~KeyLT(a[i], a[i - 1]) THEN AscRun(a, i + 1) ELSE i - 1

count_run(a) ==
    IF Len(a) <= 1 THEN [n |-> Len(a), desc |-> FALSE]
    ELSE IF KeyLT(a[2], a[1]) THEN [n |-> DescRun(a, 3), desc |-> TRUE]
    ELSE [n |-> AscRun(a, 3), desc |-> FALSE]

RECURSIVE BinPos(_, _, _, _)
\* The insertion point of pivot in a[l+1..r] (0-based bounds l, r).
BinPos(a, pivot, l, r) ==
    IF l >= r THEN l
    ELSE LET p == l + ((r - l) \div 2)
         IN IF KeyLT(pivot, a[p + 1]) THEN BinPos(a, pivot, l, p)
            ELSE BinPos(a, pivot, p + 1, r)

RECURSIVE binarysort(_, _)
\* a[1..start] is sorted; insert a[start+1..] one at a time.
binarysort(a, start) ==
    IF start >= Len(a) THEN a
    ELSE LET pivot == a[start + 1]
             l == BinPos(a, pivot, 0, start)
             moved == [i \in 1..Len(a) |->
                          IF i <= l THEN a[i]
                          ELSE IF i = l + 1 THEN pivot
                          ELSE IF i <= start + 1 THEN a[i - 1]
                          ELSE a[i]]
         IN binarysort(moved, start + 1)

ReversePrefix(a, n) == [i \in 1..Len(a) |-> IF i <= n THEN a[n + 1 - i] ELSE a[i]]

SortDescending(similarities) ==
    LET a == Reverse(similarities)
        run == count_run(a)
        b == IF run.desc THEN ReversePrefix(a, run.n) ELSE a
    IN Reverse(binarysort(b, run.n))

\* Mutant: the truncation keeps one item too many.
Slice_OneMore(s, top_k) ==
    SubSeq(s, 1, IF top_k + 1 < Len(s) THEN top_k + 1 ELSE Len(s))

\* similarities[:top_k], a Python slice (a negative top_k counts from the end).
Slice(s, top_k) ==
    LET n == IF top_k >= 0 THEN (IF top_k < Len(s) THEN top_k ELSE Len(s))
             ELSE (IF Len(s) + top_k > 0 THEN Len(s) + top_k ELSE 0)
    IN SubSeq(s, 1, n)

\* The loop over embeddings.items(): one (clip_id, similarity) per entry.
Similarities(query_embedding, embeddings) ==
    [i \in 1..Len(embeddings) |->
        <<embeddings[i].id, cosine_similarity(query_embedding, embeddings[i].vec)>>]

\* The ranked (clip_id, similarity) pairs kept: sort, then truncate.
TopResults(query_embedding, embeddings, top_k) ==
    Slice(SortDescending(Similarities(query_embedding, embeddings)), top_k)

\* Mutant: the join without the "if clip_id in clips_by_id" test.
JoinClips_NoMembershipTest(top_results, clips) ==
    [i \in 1..Len(top_results) |->
        [id |-> top_results[i][1], cols |-> << >>,
         similarity_score |-> top_results[i][2]]]

\* Mutant: the join returns the id and the score without the record's fields.
JoinClips_BlankRecord(top_results, clips) ==
    LET live == SelectSeq(top_results, LAMBDA t : \E i \in 1..Len(clips) : clips[i].id = t[1])
    IN [i \in 1..Len(live) |->
           [id |-> live[i][1], cols |-> [opponent |-> None, result |-> None],
            similarity_score |-> live[i][2]]]

RECURSIVE JoinClips(_, _)
\* The final loop: keep the ranked ids found in clips_by_id, with a copy of
\* the current record and its score.
JoinClips(top_results, clips) ==
    IF top_results = <<>> THEN <<>>
    ELSE LET clip_id == top_results[1][1]
             found == {i \in 1..Len(clips) : clips[i].id = clip_id}
             rest == JoinClips(Tail(top_results), clips)
         IN IF found = {} THEN rest
            ELSE LET clip == clips[CHOOSE i \in found : TRUE]
                 IN <<[id |-> clip.id, cols |-> clip.cols,
                       similarity_score |-> top_results[1][2]]>> \o rest

(***************************************************************************)
(* State.                                                                  *)
(***************************************************************************)
VARIABLES
    store,              \* rows of the clips table, in fetch_clips order
    file,               \* EMBEDDINGS_FILE on disk
    OPENAI_AVAILABLE,   \* the openai import succeeded
    api_key,            \* OPENAI_API_KEY is set in the environment
    pc,                 \* where each server/CLI process stands
    loc,                \* each process's local variables
    rank,               \* one application of the ranking to drawn inputs
    proj                \* one application of the projection to drawn records

vars == <<store, file, OPENAI_AVAILABLE, api_key, pc, loc, rank, proj>>

\* The variables the program's operations never touch.
pure == <<rank, proj>>

Procs == {1, 2}

\* A clip row; the model varies two of its columns.
Clip(id, result) ==
    [id |-> id, cols |-> [opponent |-> StrV("Duke"), result |-> StrV(result)]]

Results == {"Make", "Miss"}
\* The rows upsert_clip is called with: any id, and for the first id either
\* result, so that a row can be edited in place.
ClipChoices ==
    {Clip(id, "Make") : id \in Ids} \cup {Clip(IdSeq[1], r) : r \in Results}

StoreIds(clips) == {clips[i].id : i \in 1..Len(clips)}

IdsOf(s) == [i \in 1..Len(s) |-> s[i].id]
Range(s) == {s[i] : i \in 1..Len(s)}

(***************************************************************************)
(* The cache file.  json.dump writes the mapping piece by piece: one cell  *)
(* per "id": [vector] entry and a last cell for the closing brace.         *)
(***************************************************************************)
\* Mutant: json.dump loses the vector's components.
EntryCell_ZeroVector(e) == [t |-> "entry", id |-> e.id, vec |-> <<0, 0>>]

EntryCell(e) == [t |-> "entry", id |-> e.id, vec |-> e.vec]
EndCell == [t |-> "end", id |-> "", vec |-> <<>>]
HoleCell == [t |-> "hole", id |-> "", vec |-> <<>>]

NoFile == [exists |-> FALSE, cells |-> <<>>]

\* The cells json.dump(embeddings, f) writes, in order.
Dump(embeddings) ==
    [i \in 1..(Len(embeddings) + 1) |->
        IF i <= Len(embeddings) THEN EntryCell(embeddings[i]) ELSE EndCell]

\* f.write of one cell at offset pos (0-based) of a file opened with 'w':
\* overwrites in place, appends at the end, leaves a hole past the end.
WriteAt(cells, pos, cell) ==
    [i \in 1..(IF pos + 1 > Len(cells) THEN pos + 1 ELSE Len(cells)) |->
        IF i = pos + 1 THEN cell
        ELSE IF i <= Len(cells) THEN cells[i]
        ELSE HoleCell]

\* Whether json.load accepts the content: entries closed by one final brace.
WellFormed(cells) ==
    /\ Len(cells) >= 1
    /\ cells[Len(cells)].t = "end"
    /\ \A i \in 1..(Len(cells) - 1) : cells[i].t = "entry"

RECURSIVE ParseEntries(_, _)
\* The dict json.load builds: a repeated key keeps its first position and
\* takes the last value.
ParseEntries(cells, acc) ==
    IF cells = <<>> \/ cells[1].t # "entry" THEN acc
    ELSE LET c == cells[1]
             at == {i \in 1..Len(acc) : acc[i].id = c.id}
             e == [id |-> c.id, vec |-> c.vec]
         IN ParseEntries(Tail(cells),
                IF at = {} THEN Append(acc, e)
                ELSE [acc EXCEPT ![CHOOSE i \in at : TRUE] = e])

\* The identifiers a cache file holds (none when missing or unreadable).
KeysOf(f) ==
    IF f.exists /\ WellFormed(f.cells)
    THEN {f.cells[i].id : i \in 1..(Len(f.cells) - 1)} ELSE {}

\* load_embeddings(): None when the file is missing, the parsed mapping, or
\* the exception json.load raises.
load_embeddings(f) ==
    IF ~f.exists THEN [kind |-> "none", embeddings |-> <<>>]
    ELSE IF ~WellFormed(f.cells) THEN [kind |-> "raise", embeddings |-> <<>>]
    ELSE [kind |-> "dict", embeddings |-> ParseEntries(f.cells, <<>>)]

(***************************************************************************)
(* Outcomes of an operation.                                               *)
(***************************************************************************)
NoOut == [kind |-> "none", exc |-> "", status |-> 0, results |-> <<>>, count |-> 0]

\* semantic_search returned its result list.
Returned(results) == [NoOut EXCEPT !.kind = "results", !.results = results]
\* An exception left semantic_search.
Raised(exc) == [NoOut EXCEPT !.kind = "raise", !.exc = exc]
\* api_semantic_search answered before calling semantic_search.
Rejected(status) == [NoOut EXCEPT !.kind = "rejected", !.status = status]
\* rebuild_embeddings returned its report.
ReportOk(count) == [NoOut EXCEPT !.kind = "report_ok", !.count = count]
ReportFail(exc) == [NoOut EXCEPT !.kind = "report_fail", !.exc = exc]

\* json.JSONDecodeError is a subclass of ValueError.
IsValueError(exc) == exc \in {"ValueError", "JSONDecodeError"}

\* The HTTP status api_semantic_search / api_rebuild_embeddings answer with.
HttpStatus(out) ==
    CASE out.kind = "rejected" -> out.status
      [] out.kind = "results" -> 200
      [] out.kind = "raise" -> IF IsValueError(out.exc) THEN 400 ELSE 500
      [] out.kind = "report_ok" -> 200
      [] out.kind = "report_fail" -> 500
      [] OTHER -> 0

\* What the caller of POST /api/search/semantic can tell an error by: the
\* status code and whether the body carries "available": false.
HttpSignal(out) ==
    [status |-> HttpStatus(out),
     unavailable |-> \/ out.kind = "rejected" /\ out.status = 501
                     \/ out.kind = "raise" /\ IsValueError(out.exc)]

IsSpace(ch) == ch \in {" ", "\t", "\n"}

RECURSIVE LStrip(_)
LStrip(q) == IF q # <<>> /\ IsSpace(q[1]) THEN LStrip(Tail(q)) ELSE q

\* query.strip(): leading and trailing whitespace removed.
Strip(q) == Reverse(LStrip(Reverse(LStrip(q))))

CliTopK == 5

LocInit ==
    [op |-> "none", via |-> "none", query |-> <<>>, top_k |-> 0,
     loaded |-> "none", clip_ids |-> <<>>, texts |-> <<>>,
     response |-> <<>>, embeddings |-> <<>>, wpos |-> 0, calls |-> <<>>,
     query_embedding |-> <<>>, ranked |-> <<>>, out |-> NoOut,
     file0 |-> NoFile, keys0 |-> {}]

NoRank == [phase |-> "off"]
NoProj == [phase |-> "off"]

Init ==
    /\ store = <<>>
    /\ file = NoFile
    /\ OPENAI_AVAILABLE \in BOOLEAN
    /\ api_key \in BOOLEAN
    /\ pc = [p \in Procs |-> "idle"]
    /\ loc = [p \in Procs |-> LocInit]
    /\ rank = NoRank
    /\ proj = NoProj

\* Mutant: only a missing cache file starts a rebuild ("if embeddings is
\* None"); an empty mapping is searched as it is.
SearchBegin_EmptyIsWarm(p, via, query, top_k) ==
    LET l0 == [LocInit EXCEPT !.op = "search", !.via = via, !.file0 = file,
                              !.keys0 = KeysOf(file),
                              !.query = query, !.top_k = top_k]
        ld == load_embeddings(file)
    IN IF ~OPENAI_AVAILABLE THEN
           /\ pc' = [pc EXCEPT ![p] = "done"]
           /\ loc' = [loc EXCEPT ![p] = [l0 EXCEPT !.out = Raised("ImportError")]]
       ELSE IF ~api_key THEN
           /\ pc' = [pc EXCEPT ![p] = "done"]
           /\ loc' = [loc EXCEPT ![p] = [l0 EXCEPT !.out = Raised("ValueError")]]
       ELSE IF ld.kind = "raise" THEN
           /\ pc' = [pc EXCEPT ![p] = "done"]
           /\ loc' = [loc EXCEPT ![p] = [l0 EXCEPT !.loaded = "corrupt",
                                                   !.out = Raised("JSONDecodeError")]]
       ELSE IF ld.kind = "none" THEN
           /\ pc' = [pc EXCEPT ![p] = "generate"]
           /\ loc' = [loc EXCEPT ![p] = [l0 EXCEPT !.loaded = "absent"]]
       ELSE
           /\ pc' = [pc EXCEPT ![p] = "query"]
           /\ loc' = [loc EXCEPT ![p] = [l0 EXCEPT
                          !.loaded = IF ld.embeddings = <<>> THEN "empty" ELSE "ok",
                          !.embeddings = ld.embeddings]]

(***************************************************************************)
(* semantic_search(query, top_k), up to the cache load (lines 177-189).    *)
(* loaded records what load_embeddings gave; calls is the list of provider *)
(* calls this invocation has made, response the vectors the provider gave  *)
(* back for the batch, one per text in the order of the input; file0 is    *)
(* the cache file as the operation found it (kept until the operation      *)
(* opens the file for writing) and keys0 the identifiers that file held.   *)
(***************************************************************************)
SearchBegin(p, via, query, top_k) ==
    LET l0 == [LocInit EXCEPT !.op = "search", !.via = via, !.file0 = file,
                              !.keys0 = KeysOf(file),
                              !.query = query, !.top_k = top_k]
        ld == load_embeddings(file)
    IN IF ~OPENAI_AVAILABLE THEN
           /\ pc' = [pc EXCEPT ![p] = "done"]
           /\ loc' = [loc EXCEPT ![p] = [l0 EXCEPT !.out = Raised("ImportError")]]
       ELSE IF ~api_key THEN
           /\ pc' = [pc EXCEPT ![p] = "done"]
           /\ loc' = [loc EXCEPT ![p] = [l0 EXCEPT !.out = Raised("ValueError")]]
       ELSE IF ld.kind = "raise" THEN
           /\ pc' = [pc EXCEPT ![p] = "done"]
           /\ loc' = [loc EXCEPT ![p] = [l0 EXCEPT !.loaded = "corrupt",
                                                   !.out = Raised("JSONDecodeError")]]
       ELSE IF ld.embeddings = <<>> THEN
           \* "if not embeddings": None or an empty dict
           /\ pc' = [pc EXCEPT ![p] = "generate"]
           /\ loc' = [loc EXCEPT ![p] = [l0 EXCEPT !.loaded =
                          IF ld.kind = "none" THEN "absent" ELSE "empty"]]
       ELSE
           /\ pc' = [pc EXCEPT ![p] = "query"]
           /\ loc' = [loc EXCEPT ![p] = [l0 EXCEPT !.loaded = "ok",
                                                   !.embeddings = ld.embeddings]]

\* POST /api/search/semantic
ApiSemanticSearch(p, query, top_k) ==
    /\ pc[p] = "idle"
    /\ IF ~OPENAI_AVAILABLE THEN
           \* answered before the request body is read
           /\ pc' = [pc EXCEPT ![p] = "done"]
           /\ loc' = [loc EXCEPT ![p] = [LocInit EXCEPT !.op = "search",
                          !.via = "http", !.file0 = file,
                          !.keys0 = KeysOf(file), !.out = Rejected(501)]]
       ELSE IF Strip(query) = <<>> THEN
           \* "if not query": 400, Query parameter required
           /\ pc' = [pc EXCEPT ![p] = "done"]
           /\ loc' = [loc EXCEPT ![p] = [LocInit EXCEPT !.op = "search",
                          !.via = "http", !.file0 = file,
                          !.keys0 = KeysOf(file), !.query = Strip(query),
                          !.out = Rejected(400)]]
       ELSE SearchBegin(p, "http", Strip(query), top_k)
    /\ UNCHANGED <<store, file, OPENAI_AVAILABLE, api_key, pure>>

\* python semantic_search.py search <query>
CliSearch(p, query) ==
    /\ pc[p] = "idle"
    /\ SearchBegin(p, "cli", query, CliTopK)
    /\ UNCHANGED <<store, file, OPENAI_AVAILABLE, api_key, pure>>

\* Mutant: rebuild_embeddings without its try/except.
Fail_Raises(l, exc) == [l EXCEPT !.out = Raised(exc)]

\* The outcome when exception exc ends the operation of locals l:
\* rebuild_embeddings catches it into a report, semantic_search lets it out.
Fail(l, exc) ==
    [l EXCEPT !.out = IF l.op = "rebuild" THEN ReportFail(exc) ELSE Raised(exc)]

\* Mutant: generate_embeddings_for_all_clips without the OPENAI_API_KEY check.
GenerateFetch_NoKeyCheck(p, l) ==
    IF ~OPENAI_AVAILABLE THEN
        /\ pc' = [pc EXCEPT ![p] = "done"]
        /\ loc' = [loc EXCEPT ![p] = Fail(l, "ImportError")]
    ELSE
        /\ pc' = [pc EXCEPT ![p] = "embed"]
        /\ loc' = [loc EXCEPT ![p] = [l EXCEPT
               !.clip_ids = [i \in 1..Len(store) |-> store[i].id],
               !.texts = [i \in 1..Len(store) |->
                             get_clip_text_representation(store[i])]]]

(***************************************************************************)
(* generate_embeddings_for_all_clips, lines 105-126: the availability      *)
(* checks, fetch_clips() and the batch of texts.                           *)
(***************************************************************************)
GenerateFetch(p, l) ==
    IF ~OPENAI_AVAILABLE THEN
        /\ pc' = [pc EXCEPT ![p] = "done"]
        /\ loc' = [loc EXCEPT ![p] = Fail(l, "ImportError")]
    ELSE IF ~api_key THEN
        /\ pc' = [pc EXCEPT ![p] = "done"]
        /\ loc' = [loc EXCEPT ![p] = Fail(l, "ValueError")]
    ELSE
        \/ \* fetch_clips() raises (the database cannot be read)
           /\ pc' = [pc EXCEPT ![p] = "done"]
           /\ loc' = [loc EXCEPT ![p] = Fail(l, "StoreError")]
        \/ /\ pc' = [pc EXCEPT ![p] = "embed"]
           /\ loc' = [loc EXCEPT ![p] = [l EXCEPT
                  !.clip_ids = [i \in 1..Len(store) |-> store[i].id],
                  !.texts = [i \in 1..Len(store) |->
                                get_clip_text_representation(store[i])]]]

\* rebuild_embeddings(): POST /api/search/rebuild-embeddings or the CLI build.
RebuildEmbeddings(p) ==
    /\ pc[p] = "idle"
    /\ GenerateFetch(p, [LocInit EXCEPT !.op = "rebuild", !.file0 = file,
                                       !.keys0 = KeysOf(file)])
    /\ UNCHANGED <<store, file, OPENAI_AVAILABLE, api_key, pure>>

\* The cold path of semantic_search entering generate_embeddings_for_all_clips.
Generate(p) ==
    /\ pc[p] = "generate"
    /\ GenerateFetch(p, loc[p])
    /\ UNCHANGED <<store, file, OPENAI_AVAILABLE, api_key, pure>>

\* Mutant: the loop over response.data stops one item short.
Mapping_DropsLast(clip_ids, data) ==
    [i \in 1..(Len(data) - 1) |-> [id |-> clip_ids[i], vec |-> data[i]]]

\* Mutant: the vectors are assigned to the ids in reverse order.
Mapping_Reversed(clip_ids, data) ==
    [i \in 1..Len(data) |-> [id |-> clip_ids[i], vec |-> data[Len(data) + 1 - i]]]

\* embeddings[clip_ids[i]] = response.data[i].embedding, for every i.
Mapping(clip_ids, data) ==
    [i \in 1..Len(data) |-> [id |-> clip_ids[i], vec |-> data[i]]]

(***************************************************************************)
(* Lines 128-140 and the open() of save_embeddings: the batch call to the  *)
(* provider (skipped for an empty batch), then the file is opened for      *)
(* writing, which truncates it.                                            *)
(***************************************************************************)
\* open(EMBEDDINGS_FILE, 'w'): the file exists and is empty.
OpenForWrite(f) == [exists |-> TRUE, cells |-> <<>>]

\* Mutant: the cache file is opened for writing before the provider answers.
EmbedFails_Truncates(p, l) ==
    /\ pc' = [pc EXCEPT ![p] = "done"]
    /\ loc' = [loc EXCEPT ![p] = Fail(l, "ProviderError")]
    /\ file' = OpenForWrite(file)

\* client.embeddings.create raises inside generate_embeddings_for_all_clips:
\* the exception leaves before save_embeddings is reached.
EmbedFails(p, l) ==
    /\ pc' = [pc EXCEPT ![p] = "done"]
    /\ loc' = [loc EXCEPT ![p] = Fail(l, "ProviderError")]
    /\ file' = file

Embed(p, vecs) ==
    /\ pc[p] = "embed"
    /\ LET l == loc[p]
           n == Len(l.texts)
           call == [kind |-> "batch", n |-> n]
       IN \/ /\ n > 0
             /\ EmbedFails(p, [l EXCEPT !.calls = Append(@, call)])
          \/ \E data \in [1..n -> vecs] :
             /\ pc' = [pc EXCEPT ![p] = "write"]
             /\ loc' = [loc EXCEPT ![p] = [l EXCEPT
                    !.calls = IF n > 0 THEN Append(@, call) ELSE @,
                    !.response = data,
                    !.embeddings = Mapping(l.clip_ids, data),
                    !.wpos = 0, !.file0 = NoFile]]
             /\ file' = OpenForWrite(file)
    /\ UNCHANGED <<store, OPENAI_AVAILABLE, api_key, pure>>

(***************************************************************************)
(* json.dump into the open file, one cell per step; after the last cell    *)
(* the file is closed and save_embeddings returns.                         *)
(***************************************************************************)
Write(p) ==
    /\ pc[p] = "write"
    /\ LET l == loc[p]
           cells == Dump(l.embeddings)
           last == l.wpos + 1 = Len(cells)
       IN /\ file' = [file EXCEPT
                 !.cells = WriteAt(@, l.wpos, cells[l.wpos + 1])]
          /\ IF ~last THEN
                /\ pc' = pc
                /\ loc' = [loc EXCEPT ![p].wpos = @ + 1]
             ELSE IF l.op = "rebuild" THEN
                /\ pc' = [pc EXCEPT ![p] = "done"]
                /\ loc' = [loc EXCEPT ![p].wpos = @ + 1,
                                      ![p].out = ReportOk(Len(l.embeddings))]
             ELSE
                /\ pc' = [pc EXCEPT ![p] = "query"]
                /\ loc' = [loc EXCEPT ![p].wpos = @ + 1]
    /\ UNCHANGED <<store, OPENAI_AVAILABLE, api_key, pure>>

\* f.write raises (the disk is full): what was written so far stays on disk.
WriteFails(p) ==
    /\ pc[p] = "write"
    /\ pc' = [pc EXCEPT ![p] = "done"]
    /\ loc' = [loc EXCEPT ![p] = Fail(loc[p], "OSError")]
    /\ UNCHANGED <<store, file, OPENAI_AVAILABLE, api_key, pure>>

\* Mutant: the score is written into the stored record of each result.
Query_ScoresStoredRecord(p, vecs) ==
    /\ pc[p] = "query"
    /\ LET l == [loc[p] EXCEPT !.calls = Append(@, [kind |-> "query", n |-> 1])]
       IN \E qv \in vecs :
             LET top == TopResults(qv, l.embeddings, l.top_k)
                 res == JoinClips(top, store)
             IN /\ loc' = [loc EXCEPT ![p] = [l EXCEPT
                       !.query_embedding = qv, !.ranked = top,
                       !.out = Returned(res)]]
                /\ store' = [i \in 1..Len(store) |->
                       IF \E k \in 1..Len(res) : res[k].id = store[i].id
                       THEN [id |-> store[i].id, cols |-> store[i].cols,
                             similarity_score |-> 1]
                       ELSE store[i]]
    /\ pc' = [pc EXCEPT ![p] = "done"]
    /\ UNCHANGED <<file, OPENAI_AVAILABLE, api_key, pure>>

(***************************************************************************)
(* semantic_search lines 191-220: embed the query, score and sort the      *)
(* cached vectors, truncate, fetch the clips and join.                     *)
(***************************************************************************)
Query(p, vecs) ==
    /\ pc[p] = "query"
    /\ LET l == [loc[p] EXCEPT !.calls = Append(@, [kind |-> "query", n |-> 1])]
       IN \E qv \in vecs :
             LET top == TopResults(qv, l.embeddings, l.top_k)
             IN loc' = [loc EXCEPT ![p] = [l EXCEPT
                    !.query_embedding = qv, !.ranked = top,
                    !.out = Returned(JoinClips(top, store))]]
    /\ pc' = [pc EXCEPT ![p] = "done"]
    /\ UNCHANGED <<store, file, OPENAI_AVAILABLE, api_key, pure>>

\* Mutant: a failed query embedding call is tried once more.
QueryFails_RetriesOnce(p) ==
    /\ pc[p] = "query"
    /\ LET l == [loc[p] EXCEPT !.calls = Append(@, [kind |-> "query", n |-> 1])]
       IN IF Len(l.calls) <= 2
          THEN /\ loc' = [loc EXCEPT ![p] = l]
               /\ pc' = pc
          ELSE /\ loc' = [loc EXCEPT ![p] = Fail(l, "ProviderError")]
               /\ pc' = [pc EXCEPT ![p] = "done"]
    /\ UNCHANGED <<store, file, OPENAI_AVAILABLE, api_key, pure>>

\* Mutant: a search that fails after its rebuild removes the cache it saved.
QueryFails_DropsCache(p) ==
    /\ pc[p] = "query"
    /\ \E exc \in {"ProviderError", "StoreError"} :
          loc' = [loc EXCEPT ![p] =
              Fail([loc[p] EXCEPT !.calls = Append(@, [kind |-> "query", n |-> 1])],
                   exc)]
    /\ pc' = [pc EXCEPT ![p] = "done"]
    /\ file' = IF loc[p].loaded = "ok" THEN file ELSE NoFile
    /\ UNCHANGED <<store, OPENAI_AVAILABLE, api_key, pure>>

\* The query embedding call or the final fetch_clips() raises.
QueryFails(p) ==
    /\ pc[p] = "query"
    /\ \E exc \in {"ProviderError", "StoreError"} :
          loc' = [loc EXCEPT ![p] =
              Fail([loc[p] EXCEPT !.calls = Append(@, [kind |-> "query", n |-> 1])],
                   exc)]
    /\ pc' = [pc EXCEPT ![p] = "done"]
    /\ UNCHANGED <<store, file, OPENAI_AVAILABLE, api_key, pure>>

\* The operation has answered its caller; the process takes the next one.
Return(p) ==
    /\ pc[p] = "done"
    /\ pc' = [pc EXCEPT ![p] = "idle"]
    /\ loc' = [loc EXCEPT ![p] = LocInit]
    /\ UNCHANGED <<store, file, OPENAI_AVAILABLE, api_key, pure>>

(***************************************************************************)
(* The clips table.                                                        *)
(***************************************************************************)
\* upsert_clip: a new id becomes the newest row (fetch_clips orders by
\* created_at DESC); an existing id keeps its created_at and takes the new
\* column values.
upsert_clip(clips, clip) ==
    IF clip.id \in StoreIds(clips)
    THEN [i \in 1..Len(clips) |-> IF clips[i].id = clip.id THEN clip ELSE clips[i]]
    ELSE <<clip>> \o clips

\* remove_clip: DELETE FROM clips WHERE id = ?
remove_clip(clips, clip_id) == SelectSeq(clips, LAMBDA c : c.id # clip_id)

\* Mutant: saving a clip also puts a vector for it into the cache file.
UpsertClip_IndexesClip(clip) ==
    /\ clip.id \in StoreIds(store) \/ Len(store) < MaxClips
    /\ store' = upsert_clip(store, clip)
    /\ file' = IF load_embeddings(file).kind # "dict" THEN file
               ELSE [file EXCEPT !.cells =
                        Dump(Append(SelectSeq(load_embeddings(file).embeddings,
                                              LAMBDA e : e.id # clip.id),
                                    [id |-> clip.id, vec |-> <<1, 0>>]))]
    /\ UNCHANGED <<OPENAI_AVAILABLE, api_key, pc, loc, pure>>

UpsertClip(clip) ==
    /\ clip.id \in StoreIds(store) \/ Len(store) < MaxClips
    /\ store' = upsert_clip(store, clip)
    /\ UNCHANGED <<file, OPENAI_AVAILABLE, api_key, pc, loc, pure>>

\* Mutant: deleting a clip also prunes its entry from the cache file.
RemoveClip_Prunes(clip_id) ==
    /\ clip_id \in StoreIds(store)
    /\ store' = remove_clip(store, clip_id)
    /\ file' = [file EXCEPT !.cells = SelectSeq(@, LAMBDA c : c.id # clip_id)]
    /\ UNCHANGED <<OPENAI_AVAILABLE, api_key, pc, loc, pure>>

RemoveClip(clip_id) ==
    /\ clip_id \in StoreIds(store)
    /\ store' = remove_clip(store, clip_id)
    /\ UNCHANGED <<file, OPENAI_AVAILABLE, api_key, pc, loc, pure>>

AllIdle == \A p \in Procs : pc[p] = "idle"

\* The server is restarted with another environment (library installed or
\* not, OPENAI_API_KEY set or not).
Restart(lib, key) ==
    /\ AllIdle
    /\ <<lib, key>> # <<OPENAI_AVAILABLE, api_key>>
    /\ OPENAI_AVAILABLE' = lib
    /\ api_key' = key
    /\ UNCHANGED <<store, file, pc, loc, pure>>

(***************************************************************************)
(* Spec: one process, each request runs to completion before the next      *)
(* (the synchronous model).                                                *)
(***************************************************************************)
Next ==
    \/ \E q \in Queries, k \in TopKs : ApiSemanticSearch(1, q, k)
    \/ \E q \in Queries : CliSearch(1, q)
    \/ RebuildEmbeddings(1)
    \/ Generate(1)
    \/ Embed(1, Vecs)
    \/ Write(1)
    \/ Query(1, Vecs)
    \/ QueryFails(1)
    \/ Return(1)
    \/ AllIdle /\ \E c \in ClipChoices : UpsertClip(c)
    \/ AllIdle /\ \E id \in Ids : RemoveClip(id)
    \/ \E lib \in BOOLEAN, key \in BOOLEAN : Restart(lib, key)

Spec == Init /\ [][Next]_vars

\* SpecFault: the same, with writes to the cache file that may fail.
NextFault ==
    \/ Next
    \/ WriteFails(1)

SpecFault == Init /\ [][NextFault]_vars

(***************************************************************************)
(* SpecConc: two requests in flight at once (the Flask server handles each *)
(* request in its own thread, and the CLI build is another process), with  *)
(* the provider configured; their steps interleave.                        *)
(***************************************************************************)
ConcQuery == <<" ", "d", " ">>
ConcVecs == {<<1, 0>>, <<1, 1>>}

InitConc ==
    /\ store = <<>>
    /\ file = NoFile
    /\ OPENAI_AVAILABLE = TRUE
    /\ api_key = TRUE
    /\ pc = [p \in Procs |-> "idle"]
    /\ loc = [p \in Procs |-> LocInit]
    /\ rank = NoRank
    /\ proj = NoProj

NextConc ==
    \/ \E p \in Procs : ApiSemanticSearch(p, ConcQuery, MaxTopK)
    \/ \E p \in Procs : RebuildEmbeddings(p)
    \/ \E p \in Procs : Generate(p)
    \/ \E p \in Procs : Embed(p, ConcVecs)
    \/ \E p \in Procs : Write(p)
    \/ \E p \in Procs : Query(p, {<<1, 0>>})
    \/ \E p \in Procs : Return(p)
    \/ AllIdle /\ \E id \in Ids : UpsertClip(Clip(id, "Make"))

SpecConc == InitConc /\ [][NextConc]_vars

(***************************************************************************)
(* SpecWarm: the time after a rebuild.  The table holds clips as first     *)
(* annotated (result "Make") and the cache file is the complete mapping a  *)
(* rebuild saved for them; from there clips are edited, added and deleted  *)
(* and searches are served, the cache staying as it is.                    *)
(***************************************************************************)
BuiltStores ==
    {s \in UNION {[1..n -> {Clip(id, "Make") : id \in Ids}] : n \in 1..MaxClips} :
        \A i, j \in 1..Len(s) : i # j => s[i].id # s[j].id}

InitWarm ==
    /\ store \in BuiltStores
    /\ \E data \in [1..Len(store) -> Vecs] :
          file = [exists |-> TRUE, cells |-> Dump(Mapping(IdsOf(store), data))]
    /\ OPENAI_AVAILABLE = TRUE
    /\ api_key = TRUE
    /\ pc = [p \in Procs |-> "idle"]
    /\ loc = [p \in Procs |-> LocInit]
    /\ rank = NoRank
    /\ proj = NoProj

NextWarm ==
    \/ \E q \in Queries, k \in TopKs : ApiSemanticSearch(1, q, k)
    \/ Query(1, Vecs)
    \/ QueryFails(1)
    \/ Return(1)
    \/ AllIdle /\ \E c \in ClipChoices : UpsertClip(c)
    \/ AllIdle /\ \E id \in Ids : RemoveClip(id)

SpecWarm == InitWarm /\ [][NextWarm]_vars

(***************************************************************************)
(* SpecRank: the ranking of semantic_search (lines 199-220) applied once   *)
(* to drawn inputs: a query vector, a cache of up to MaxCorpus entries     *)
(* (ids c1..cn in insertion order), a limit and the clips in the table.    *)
(***************************************************************************)
CorpusIds == {IdSeq[i] : i \in 1..MaxCorpus}

\* Limits up to one more than the largest cache.
RankTopKs == (0 - 1)..(MaxCorpus + 1)

Corpora ==
    UNION {{[i \in 1..n |-> [id |-> IdSeq[i], vec |-> f[i]]] : f \in [1..n -> Vecs]}
           : n \in 0..MaxCorpus}

\* The table holding exactly the clips of ids, in id order.
RECURSIVE ClipsOf(_, _)
ClipsOf(ids, i) ==
    IF i > MaxCorpus THEN <<>>
    ELSE (IF IdSeq[i] \in ids THEN <<Clip(IdSeq[i], "Make")>> ELSE <<>>)
         \o ClipsOf(ids, i + 1)

InitRank ==
    /\ store = <<>>
    /\ file = NoFile
    /\ OPENAI_AVAILABLE = TRUE
    /\ api_key = TRUE
    /\ pc = [p \in Procs |-> "idle"]
    /\ loc = [p \in Procs |-> LocInit]
    /\ proj = NoProj
    /\ \E qv \in Vecs, emb \in Corpora, k \in RankTopKs, ids \in SUBSET CorpusIds :
          rank = [phase |-> "in", query_embedding |-> qv, embeddings |-> emb,
                  top_k |-> k, clips |-> ClipsOf(ids, 1),
                  ranked |-> <<>>, results |-> <<>>]

\* Mutant: the whole ranking is joined to the clips and the result is
\* truncated afterwards, so a live clip fills the place of an orphan.
ApplyRank_JoinThenTruncate ==
    /\ rank.phase = "in"
    /\ rank' = [rank EXCEPT
           !.phase = "out",
           !.ranked = TopResults(rank.query_embedding, rank.embeddings, rank.top_k),
           !.results = Slice(
               JoinClips(SortDescending(Similarities(rank.query_embedding,
                                                     rank.embeddings)),
                         rank.clips),
               rank.top_k)]
    /\ UNCHANGED <<store, file, OPENAI_AVAILABLE, api_key, pc, loc, proj>>

ApplyRank ==
    /\ rank.phase = "in"
    /\ rank' = [rank EXCEPT
           !.phase = "out",
           !.ranked = TopResults(rank.query_embedding, rank.embeddings, rank.top_k),
           !.results = JoinClips(
               TopResults(rank.query_embedding, rank.embeddings, rank.top_k),
               rank.clips)]
    /\ UNCHANGED <<store, file, OPENAI_AVAILABLE, api_key, pc, loc, proj>>

NextRank == ApplyRank

SpecRank == InitRank /\ [][NextRank]_vars

(***************************************************************************)
(* SpecRankLong: the ranking alone on caches of up to MaxLongCorpus        *)
(* entries, with a limit that keeps them all and no clip to join.          *)
(***************************************************************************)
LongCorpora ==
    UNION {{[i \in 1..n |-> [id |-> ToString(i), vec |-> f[i]]] : f \in [1..n -> Vecs]}
           : n \in 0..MaxLongCorpus}

InitRankLong ==
    /\ store = <<>>
    /\ file = NoFile
    /\ OPENAI_AVAILABLE = TRUE
    /\ api_key = TRUE
    /\ pc = [p \in Procs |-> "idle"]
    /\ loc = [p \in Procs |-> LocInit]
    /\ proj = NoProj
    /\ \E qv \in Vecs, emb \in LongCorpora :
          rank = [phase |-> "in", query_embedding |-> qv, embeddings |-> emb,
                  top_k |-> Len(emb), clips |-> <<>>,
                  ranked |-> <<>>, results |-> <<>>]

SpecRankLong == InitRankLong /\ [][NextRank]_vars

(***************************************************************************)
(* SpecProj: get_clip_text_representation applied once to a drawn clip     *)
(* dict: every key the projection reads is None but for at most MaxFields  *)
(* of them, which hold what their column type gives, an int (0 included)   *)
(* for the INTEGER columns and a str (the empty string included) for the   *)
(* others.                                                                 *)
(***************************************************************************)
IntCols == {"game_id", "quarter", "possession", "points"}

\* The legacy alias draws its own non-empty string, so that its value can be
\* told from the primary trigger's.
ValuesOf(f) ==
    IF f \in IntCols THEN {IntV(0), IntV(2)}
    ELSE IF f = "action_trigger" THEN {StrV(""), StrV("b")}
    ELSE {StrV(""), StrV("a")}

FieldValues == UNION {ValuesOf(f) : f \in FieldNames}

RECURSIVE ColumnSets(_)
\* The sets of at most n of those columns.
ColumnSets(n) ==
    IF n = 0 THEN {{}}
    ELSE LET less == ColumnSets(n - 1)
         IN less \cup {x \cup {f} : x \in less, f \in FieldNames}

\* The rows with at most n columns set.
RowsUpTo(n) ==
    UNION {{[id |-> IdSeq[1],
             cols |-> [f \in FieldNames |-> IF f \in fs THEN vals[f] ELSE None]] :
               vals \in {x \in [fs -> FieldValues] : \A f \in fs : x[f] \in ValuesOf(f)}} :
           fs \in ColumnSets(n)}

InitProj ==
    /\ store = <<>>
    /\ file = NoFile
    /\ OPENAI_AVAILABLE = TRUE
    /\ api_key = TRUE
    /\ pc = [p \in Procs |-> "idle"]
    /\ loc = [p \in Procs |-> LocInit]
    /\ rank = NoRank
    /\ \E clip \in RowsUpTo(MaxFields) :
          proj = [phase |-> "in", clips |-> <<clip>>, parts |-> <<>>, texts |-> <<>>]

Project ==
    /\ proj.phase = "in"
    /\ proj' = [proj EXCEPT
           !.phase = "out",
           !.parts = [i \in 1..Len(proj.clips) |-> Parts(proj.clips[i])],
           !.texts = [i \in 1..Len(proj.clips) |->
                         get_clip_text_representation(proj.clips[i])]]
    /\ UNCHANGED <<store, file, OPENAI_AVAILABLE, api_key, pc, loc, rank>>

NextProj == Project

SpecProj == InitProj /\ [][NextProj]_vars

(***************************************************************************)
(* SpecProjPair: the projection applied to two rows that differ in one     *)
(* column: a row with at most MaxPairFields columns set, and the same row  *)
(* with one column given another value (NULL included).                    *)
(***************************************************************************)
InitProjPair ==
    /\ store = <<>>
    /\ file = NoFile
    /\ OPENAI_AVAILABLE = TRUE
    /\ api_key = TRUE
    /\ pc = [p \in Procs |-> "idle"]
    /\ loc = [p \in Procs |-> LocInit]
    /\ rank = NoRank
    /\ \E clip \in RowsUpTo(MaxPairFields), f \in FieldNames,
          v \in FieldValues \cup {None} :
          /\ v \in ValuesOf(f) \cup {None}
          /\ v # clip.cols[f]
          /\ proj = [phase |-> "in",
                     clips |-> <<clip, [clip EXCEPT !.cols[f] = v]>>,
                     parts |-> <<>>,
                     texts |-> <<>>]

SpecProjPair == InitProjPair /\ [][NextProj]_vars

(***************************************************************************)
(* Properties.                                                             *)
(***************************************************************************)
Done(p) == pc[p] = "done"
SearchDone(p) == Done(p) /\ loc[p].op = "search"
RebuildDone(p) == Done(p) /\ loc[p].op = "rebuild"

BatchCalls(l) == SelectSeq(l.calls, LAMBDA c : c.kind = "batch")
QueryCalls(l) == SelectSeq(l.calls, LAMBDA c : c.kind = "query")


IsBlank(q) == \A i \in 1..Len(q) : IsSpace(q[i])

\* A search that found no cache file and returned a result list.
ColdSearchReturned(p) ==
    /\ SearchDone(p)
    /\ loc[p].loaded = "absent"
    /\ loc[p].out.kind = "results"

\* What a cold-start search has done when it returns, but for the number of
\* batch calls: the fresh mapping has one entry per store record, it is what
\* the cache file now holds, and the ranking is computed from it.
ColdSearchBuiltCache(p) ==
    /\ IdsOf(loc[p].embeddings) = IdsOf(store)
    /\ load_embeddings(file) = [kind |-> "dict", embeddings |-> loc[p].embeddings]
    /\ loc[p].ranked = TopResults(loc[p].query_embedding,
                                  load_embeddings(file).embeddings, loc[p].top_k)
    /\ Len(QueryCalls(loc[p])) = 1

\* C1 as stated: a cold-start search over a store of N records makes exactly
\* one batch embedding call, of N texts, saves the mapping and ranks from it.
C1_ColdStartOneBatchOfN ==
    \A p \in Procs : ColdSearchReturned(p) =>
        /\ BatchCalls(loc[p]) = <<[kind |-> "batch", n |-> Len(store)]>>
        /\ ColdSearchBuiltCache(p)

\* C1 amended: a cold-start search over a store of N >= 1 records makes
\* exactly one batch embedding call, of N texts; over an empty store it makes
\* no batch call.  Either way the fresh mapping (one entry per store record)
\* is saved as the cache and the ranking is computed from it.
C1_ColdStartOneBatchUnlessEmpty ==
    \A p \in Procs : ColdSearchReturned(p) =>
        /\ BatchCalls(loc[p]) =
               IF Len(store) > 0 THEN <<[kind |-> "batch", n |-> Len(store)]>>
               ELSE <<>>
        /\ ColdSearchBuiltCache(p)

C1_Witness ==
    /\ ColdSearchReturned(1)
    /\ Len(store) = 2
    /\ Len(loc[1].out.results) = 2

\* C2: every result a search returns carries an identifier that is a key of
\* the persisted cache and the id of a record now in the store; the results
\* are the ranked entries still in the store, in ranking order, so an
\* orphaned cache key is dropped and raises nothing.
C2_OrphanTolerance ==
    \A p \in Procs : (SearchDone(p) /\ loc[p].out.kind = "results") =>
        /\ \A r \in Range(loc[p].out.results) :
              /\ r.id \in StoreIds(store)
              /\ r.id \in Range(IdsOf(load_embeddings(file).embeddings))
        /\ IdsOf(loc[p].out.results) =
              SelectSeq([i \in 1..Len(loc[p].ranked) |-> loc[p].ranked[i][1]],
                        LAMBDA id : id \in StoreIds(store))

\* A search returned results although a ranked cache key is not in the store.
C2_Witness ==
    /\ SearchDone(1)
    /\ loc[1].out.kind = "results"
    /\ loc[1].out.results # <<>>
    /\ \E i \in 1..Len(loc[1].ranked) : loc[1].ranked[i][1] \notin StoreIds(store)

\* C3 as stated (its provider-call part): with the provider available, a
\* search whose query is empty or whitespace-only returns no result list and
\* makes no provider call.
C3_EmptyQueryNoProviderCall ==
    \A p \in Procs :
        (SearchDone(p) /\ IsBlank(loc[p].query) /\ OPENAI_AVAILABLE /\ api_key) =>
            /\ loc[p].out.kind # "results"
            /\ loc[p].calls = <<>>

\* C3 on the HTTP path only: api_semantic_search answers an empty or
\* whitespace-only query with 400 (501 when the library is missing), never
\* with a result list, before the cache is loaded and without any provider
\* call, whatever the cache file holds.
C3_HttpEmptyQueryRejected ==
    \A p \in Procs :
        (SearchDone(p) /\ loc[p].via = "http" /\ IsBlank(loc[p].query)) =>
            /\ loc[p].out.kind = "rejected"
            /\ loc[p].out.status = IF OPENAI_AVAILABLE THEN 400 ELSE 501
            /\ loc[p].calls = <<>>
            /\ loc[p].loaded = "none"
            /\ file = loc[p].file0

\* A whitespace-only query was rejected with 400 while no cache file exists.
C3_Witness ==
    /\ SearchDone(1)
    /\ loc[1].via = "http"
    /\ loc[1].out = Rejected(400)
    /\ ~file.exists

\* The operation of p failed while rebuilding the cache: in rebuild_embeddings
\* or in the cold path of a search, before the query is embedded, with one
\* of the failures of generate_embeddings_for_all_clips.
RebuildFailed(p) ==
    /\ Done(p)
    /\ loc[p].op = "rebuild" \/ loc[p].loaded \in {"absent", "empty"}
    /\ loc[p].out.kind \in {"raise", "report_fail"}
    /\ loc[p].out.exc \in {"ImportError", "ValueError", "StoreError", "ProviderError"}
    /\ QueryCalls(loc[p]) = <<>>

\* C6 as stated: no load observes a partially written cache file, also when
\* it runs while another request is saving.
C6_LoadNeverSeesPartialWrite ==
    \A p \in Procs : loc[p].loaded # "corrupt"

\* C15 as stated: when two rebuilds that ran at the same time have both
\* reported success, the cache file is the complete mapping one of them
\* produced.
C15_ConcurrentRebuildsLastWriterWins ==
    (\A p \in Procs : RebuildDone(p) /\ loc[p].out.kind = "report_ok") =>
        \E p \in Procs :
            load_embeddings(file) = [kind |-> "dict", embeddings |-> loc[p].embeddings]

\* C16: an invocation issues at most one batch embedding call and at most
\* one query embedding call (a rebuild none of the latter); a provider
\* failure ends the invocation with that error, and nothing more is sent to
\* the provider after it.
C16_NoRetry ==
    /\ [](\A p \in Procs :
            /\ Len(BatchCalls(loc[p])) <= 1
            /\ Len(QueryCalls(loc[p])) <= 1
            /\ loc[p].op = "rebuild" => QueryCalls(loc[p]) = <<>>
            /\ loc[p].out.exc = "ProviderError" =>
                  /\ Done(p)
                  /\ loc[p].out.kind \in {"raise", "report_fail"})
    /\ [][\A p \in Procs :
            loc[p].out.exc = "ProviderError" =>
                (loc'[p] = loc[p] \/ (loc'[p] = LocInit /\ pc'[p] = "idle"))]_vars

\* A cold-start search built the cache and then failed in the query
\* embedding call: one batch call, one query call, an error.
C16_Witness ==
    /\ SearchDone(1)
    /\ loc[1].out = Raised("ProviderError")
    /\ Len(BatchCalls(loc[1])) = 1
    /\ Len(QueryCalls(loc[1])) = 1

\* The cause of a failed search: the library or the key is missing, the
\* query is empty, or something failed at run time.
CauseClass(l) ==
    CASE l.out.kind = "rejected" /\ l.out.status = 501 -> "not_configured"
      [] l.out.kind = "rejected" /\ l.out.status = 400 -> "bad_input"
      [] l.out.kind = "raise" /\ l.out.exc \in {"ImportError", "ValueError"} ->
             "not_configured"
      [] OTHER -> "internal"

\* C17 as stated: a failed HTTP search is signalled as not-configured
\* ("available": false) exactly when the library or the key is missing, as
\* bad input (a plain 400) exactly when the query is empty, and as an
\* internal failure (500) otherwise.
C17_ErrorClassesDistinct ==
    \A p \in Procs :
        (SearchDone(p) /\ loc[p].via = "http" /\ loc[p].out.kind # "results") =>
            LET sig == HttpSignal(loc[p].out)
                cause == CauseClass(loc[p])
            IN /\ sig.unavailable <=> cause = "not_configured"
               /\ (sig.status = 400 /\ ~sig.unavailable) <=> cause = "bad_input"
               /\ sig.status = 500 <=> cause = "internal"

\* C18: every result of a search carries the column values its clip has in
\* the store now and the similarity of the query vector to the vector the
\* cache file holds for it, whatever the record was when that vector was
\* made.
C18_JoinReturnsCurrentRecords ==
    \A p \in Procs : (SearchDone(p) /\ loc[p].out.kind = "results") =>
        \A k \in 1..Len(loc[p].out.results) :
            LET r == loc[p].out.results[k]
                cached == load_embeddings(file).embeddings
            IN /\ \E i \in 1..Len(store) :
                     store[i].id = r.id /\ store[i].cols = r.cols
               /\ \E j \in 1..Len(cached) :
                     /\ cached[j].id = r.id
                     /\ r.similarity_score =
                            cosine_similarity(loc[p].query_embedding, cached[j].vec)

\* A clip whose result was edited after the cache was built is returned
\* with the edited value.
C18_Witness ==
    /\ SearchDone(1)
    /\ loc[1].out.kind = "results"
    /\ \E k \in 1..Len(loc[1].out.results) :
          /\ loc[1].out.results[k].id = IdSeq[1]
          /\ loc[1].out.results[k].cols.result = StrV("Miss")
          /\ IsPositive(loc[1].out.results[k].similarity_score)

\* C7: when a rebuild fails (store fetch, provider unavailable, provider
\* call), started by rebuild_embeddings or by a cold-start search, the cache
\* file is exactly what it was when the operation began.
C7_FailedRebuildLeavesCache ==
    \A p \in Procs : RebuildFailed(p) => file = loc[p].file0

\* rebuild_embeddings failed in the provider call over a valid cache of two.
C7_Witness ==
    /\ RebuildDone(1)
    /\ loc[1].out = ReportFail("ProviderError")
    /\ Cardinality(KeysOf(file)) = 2
    /\ loc[1].file0 = file

\* C8 as stated: a search that finds a corrupt cache file does not fail on
\* it; it treats the file as absent.
C8_CorruptCacheTreatedAsAbsent ==
    \A p \in Procs :
        SearchDone(p) =>
            /\ loc[p].out # Raised("JSONDecodeError")
            /\ loc[p].loaded # "corrupt"

\* C9: rebuild_embeddings never raises; it ends with a report.  On success
\* count is the number of store records and the cache file holds a mapping
\* whose keys are exactly the store's identifiers, so a key of the previous
\* cache survives only if it is still in the store; on failure the report
\* carries the error.
C9_RebuildReports ==
    \A p \in Procs : RebuildDone(p) =>
        /\ loc[p].out.kind \in {"report_ok", "report_fail"}
        /\ loc[p].out.kind = "report_fail" => loc[p].out.exc # ""
        /\ loc[p].out.kind = "report_ok" =>
              /\ loc[p].out.count = Len(store)
              /\ load_embeddings(file).kind = "dict"
              /\ IdsOf(load_embeddings(file).embeddings) = IdsOf(store)
              /\ KeysOf(file) = StoreIds(store)
              /\ \A id \in loc[p].keys0 :
                    id \in KeysOf(file) => id \in StoreIds(store)

\* A rebuild over an existing cache succeeded and dropped a key that is no
\* longer in the store.
C9_Witness ==
    /\ RebuildDone(1)
    /\ loc[1].out.kind = "report_ok"
    /\ loc[1].out.count = 1
    /\ loc[1].keys0 \ KeysOf(file) # {}

Unavailable == ~(OPENAI_AVAILABLE /\ api_key)

\* C10: with the library missing or the credential unset, a search or a
\* rebuild ends in a configuration failure (ImportError or ValueError from
\* the core, 501 from the HTTP handler; a blank HTTP query is still answered
\* 400), no provider call has been made and the cache file is what it was;
\* no step taken while unavailable changes the cache file or the store.
C10_UnavailableFailsEarly ==
    /\ [](\A p \in Procs : (Done(p) /\ Unavailable) =>
            /\ \/ /\ loc[p].out.kind \in {"raise", "report_fail"}
                  /\ loc[p].out.exc \in {"ImportError", "ValueError"}
               \/ loc[p].out = Rejected(501)
               \/ /\ loc[p].out = Rejected(400)
                  /\ IsBlank(loc[p].query)
            /\ loc[p].calls = <<>>
            /\ file = loc[p].file0)
    /\ [][(Unavailable /\ pc' # pc) => (file' = file /\ store' = store)]_vars

\* A rebuild was refused for the missing credential over a valid cache and a
\* store that has moved on.
C10_Witness ==
    /\ RebuildDone(1)
    /\ OPENAI_AVAILABLE /\ ~api_key
    /\ loc[1].out = ReportFail("ValueError")
    /\ KeysOf(file) # {}
    /\ KeysOf(file) # StoreIds(store)

\* save_embeddings has returned in the operation of p: json.dump wrote its
\* last cell and the file was closed.
SaveCompleted(p) ==
    /\ pc[p] \in {"query", "done"}
    /\ loc[p].wpos = Len(loc[p].embeddings) + 1

EntryIds(f) == {f.cells[i].id : i \in {j \in 1..Len(f.cells) : f.cells[j].t = "entry"}}

\* C12: every key of the cache file is the id of a record that was in the
\* store when the rebuild that wrote it fetched the clips: while a rebuild
\* writes, the keys in the file are among the ids it fetched, which are the
\* store's; the file changes in no step other than a rebuild's open and
\* writes; and a step that changes the store (a delete in particular)
\* leaves the file as it is, so orphaned keys stay.
C12_CacheKeysFromRebuildStore ==
    /\ [](\A p \in Procs : pc[p] = "write" =>
            /\ EntryIds(file) \subseteq Range(loc[p].clip_ids)
            /\ loc[p].clip_ids = IdsOf(store)
            /\ IdsOf(loc[p].embeddings) = loc[p].clip_ids)
    /\ [][file' # file => \E p \in Procs : pc[p] \in {"embed", "write"}]_vars
    /\ [][store' # store => file' = file]_vars

\* The cache file still holds the key of a clip deleted from a store that
\* has other clips.
C12_Witness ==
    /\ AllIdle
    /\ store # <<>>
    /\ KeysOf(file) \ StoreIds(store) # {}

Projected == proj.phase = "out"

\* The segments of the projected text in their order: the field (the two
\* trigger keys share one), its label, and what the code puts before and
\* after the value.
Labelled(slot, label) ==
    [slot |-> slot, label |-> label, pre |-> label \o ": ", post |-> ""]
Unlabelled(slot, label, pre, post) ==
    [slot |-> slot, label |-> label, pre |-> pre, post |-> post]

SegmentTable ==
    <<Unlabelled("game_id", "Game", "Game ", ""),
      Unlabelled("opponent", "Opponent", "vs ", ""),
      Unlabelled("quarter", "Quarter", "Q", ""),
      Unlabelled("possession", "Possession", "Possession ", ""),
      Labelled("situation", "Situation"),
      Labelled("formation", "Formation"),
      Labelled("play_name", "Play"),
      Labelled("trigger", "Trigger"),
      Labelled("action_types", "Actions"),
      Labelled("action_sequence", "Sequence"),
      Labelled("scout_coverage", "Scout Coverage"),
      Labelled("coverage", "Coverage"),
      Labelled("ball_screen", "Ball Screen"),
      Labelled("off_ball_screen", "Off Ball Screen"),
      Labelled("help_rotation", "Help"),
      Labelled("disruption", "Disruption"),
      Labelled("breakdown", "Breakdown"),
      Labelled("result", "Result"),
      Labelled("shooter", "Shooter"),
      Labelled("shot_location", "Shot Location"),
      Labelled("shot_result", "Shot Result"),
      Unlabelled("points", "Points", "", " points"),
      Labelled("rebound", "Rebound"),
      Labelled("contest", "Contest"),
      Labelled("paint_touch", "Paint Touch"),
      Labelled("notes", "Notes")>>

\* The value a segment shows: for the trigger, the primary key unless it is
\* None, else the legacy alias.
SlotValue(clip, slot) ==
    IF slot # "trigger" THEN Get(clip, slot)
    ELSE IF Get(clip, "play_trigger") # None THEN Get(clip, "play_trigger")
    ELSE Get(clip, "action_trigger")

\* The text of C19 as stated: one "Label: value" segment per field that has
\* a value, in the table's order, joined with " | ".
TextAsStated(clip) ==
    LET shown == SelectSeq(SegmentTable, LAMBDA g : SlotValue(clip, g.slot) # None)
    IN Join(" | ", [k \in 1..Len(shown) |->
                       shown[k].label \o ": " \o Str(SlotValue(clip, shown[k].slot))])

\* The text of C19 amended: one segment per field whose value is truthy
\* (the trigger: play_trigger if truthy, else action_trigger), in the same
\* order, "Label: value" but for game_id, opponent, quarter, possession and
\* points.
TextAmended(clip) ==
    LET val(g) == IF g.slot = "trigger" THEN trigger_value(clip) ELSE Get(clip, g.slot)
        shown == SelectSeq(SegmentTable, LAMBDA g : Truthy(val(g)))
    IN Join(" | ", [k \in 1..Len(shown) |->
                       shown[k].pre \o Str(val(shown[k])) \o shown[k].post])

Absent(v) == v \in {None, StrV("")}

\* C20 as stated: two records that differ in the value of one field, that
\* field not being absent in both, project to different texts.
C20_OneFieldChangesText ==
    (/\ Projected
     /\ Len(proj.clips) = 2
     /\ \E f \in FieldNames :
           /\ proj.clips[1].cols[f] # proj.clips[2].cols[f]
           /\ ~(Absent(proj.clips[1].cols[f]) /\ Absent(proj.clips[2].cols[f])))
    => proj.texts[1] # proj.texts[2]

Ranked == rank.phase = "out"

Min(a, b) == IF a < b THEN a ELSE b

\* C4 as stated: in the ranked list no entry is preceded by an entry with a
\* lower similarity score.
C4_RankedDescending ==
    Ranked =>
        \A i, j \in 1..Len(rank.ranked) :
            i < j => ~ScoreLT(rank.ranked[i][2], rank.ranked[j][2])

\* C13 as stated: a zero-norm query or cached vector gives that entry the
\* score 0, never NaN, and no such entry is ranked above an entry whose
\* similarity to the query is positive.
C13_ZeroVectorScoresZero ==
    Ranked =>
        /\ \A i \in 1..Len(rank.ranked) : ~IsNaN(rank.ranked[i][2])
        /\ \A i, j \in 1..Len(rank.ranked) :
              (i < j /\ IsPositive(rank.ranked[j][2])) =>
                  IsPositive(rank.ranked[i][2])

\* The position of cache key id in the mapping's iteration order.
PosOf(embeddings, id) == CHOOSE i \in 1..Len(embeddings) : embeddings[i].id = id

\* C14 as stated: entries with equal similarity score appear in the ranking
\* in the cache mapping's insertion order, before and after the truncation
\* to top_k (an entry that is cut has no earlier-ranked entry tied with it
\* that was inserted later).
C14_TiesKeepInsertionOrder ==
    Ranked =>
        LET all == SortDescending(Similarities(rank.query_embedding, rank.embeddings))
        IN /\ \A i, j \in 1..Len(all) :
                 (i < j /\ ScoreEQ(all[i][2], all[j][2])) =>
                     PosOf(rank.embeddings, all[i][1]) < PosOf(rank.embeddings, all[j][1])
           /\ rank.top_k >= 0 => rank.ranked = SubSeq(all, 1, Len(rank.ranked))

\* C5: for a limit top_k >= 0 the ranking of a cache of n vectors has exactly
\* min(top_k, n) entries, each an (identifier, score) pair of a distinct
\* cache key; a limit above n yields all n.
C5_RankedLength ==
    (Ranked /\ rank.top_k >= 0) =>
        /\ Len(rank.ranked) = Min(rank.top_k, Len(rank.embeddings))
        /\ \A i \in 1..Len(rank.ranked) :
              rank.ranked[i][1] \in Range(IdsOf(rank.embeddings))
        /\ \A i, j \in 1..Len(rank.ranked) :
              i # j => rank.ranked[i][1] # rank.ranked[j][1]

\* A limit above the cache size returned the whole cache of three entries.
C5_Witness ==
    /\ Ranked
    /\ Len(rank.embeddings) = MaxCorpus
    /\ rank.top_k > Len(rank.embeddings)
    /\ Len(rank.ranked) = Len(rank.embeddings)

\* The Trigger segments among the parts of a projected text.
TriggerSegments(parts) ==
    SelectSeq(parts, LAMBDA g : g \in {"Trigger: " \o Str(v) : v \in FieldValues})

\* C21: the projection has at most one Trigger segment; it shows
\* play_trigger when that has a value, action_trigger only when play_trigger
\* has none, and there is no Trigger segment when neither has a value.
C21_TriggerFallback ==
    Projected =>
        LET primary == proj.clips[1].cols.play_trigger
            alias == proj.clips[1].cols.action_trigger
            trig == TriggerSegments(proj.parts[1])
        IN /\ Len(trig) <= 1
           /\ ~Absent(primary) => trig = <<"Trigger: " \o Str(primary)>>
           /\ (Absent(primary) /\ ~Absent(alias)) => trig = <<"Trigger: " \o Str(alias)>>
           /\ (Absent(primary) /\ Absent(alias)) => trig = <<>>

\* Both trigger keys hold a value and the text shows the primary one only.
C21_Witness ==
    /\ Projected
    /\ proj.clips[1].cols.play_trigger = StrV("a")
    /\ proj.clips[1].cols.action_trigger = StrV("b")
    /\ proj.texts[1] = "Trigger: a"

\* The segment of table entry g for value v, as the code writes it.
SegmentOf(g, v) == g.pre \o Str(v) \o g.post

\* C22 as stated: the projection returns a text for every record, and the
\* text has a segment for a field exactly when the field has a value in the
\* record (for the trigger: the primary key's value, else the alias's).
C22_SegmentIffPresent ==
    Projected =>
        LET clip == proj.clips[1]
            val(g) == IF g.slot = "trigger" /\ Absent(Get(clip, "play_trigger"))
                      THEN Get(clip, "action_trigger")
                      ELSE SlotValue(clip, g.slot)
        IN /\ proj.texts[1] = Join(" | ", proj.parts[1])
           /\ \A k \in 1..Len(SegmentTable) :
                 (\E i \in 1..Len(proj.parts[1]) :
                     proj.parts[1][i] = SegmentOf(SegmentTable[k], val(SegmentTable[k])))
                 <=> ~Absent(val(SegmentTable[k]))

LiveCached(embeddings, clips) == Range(IdsOf(embeddings)) \cap StoreIds(clips)

\* C24: the results are the entries of the truncated ranking whose id is in
\* the table, in the ranking's order: an orphan among them leaves a gap and
\* no entry ranked below the cut takes its place.
C24_NoBackfill ==
    Ranked =>
        /\ IdsOf(rank.results) =
               SelectSeq([i \in 1..Len(rank.ranked) |-> rank.ranked[i][1]],
                         LAMBDA id : id \in StoreIds(rank.clips))
        /\ \A i \in 1..Len(rank.results) :
              \E j \in 1..Len(rank.ranked) : rank.ranked[j][1] = rank.results[i].id

\* With top_k = 1 the one ranked entry is an orphan while a lower-ranked
\* cache key is live: the result is empty, fewer than min(top_k, live keys).
C24_Witness ==
    /\ Ranked
    /\ rank.top_k = 1
    /\ Len(rank.ranked) = 1
    /\ rank.ranked[1][1] \notin StoreIds(rank.clips)
    /\ LiveCached(rank.embeddings, rank.clips) # {}
    /\ Len(rank.results) <
          Min(rank.top_k, Cardinality(LiveCached(rank.embeddings, rank.clips)))

\* C25: a cold-start search that has saved a non-empty mapping leaves it in
\* the cache file however the search ends (a failed query embedding call
\* included); answering the caller does not touch the file; and a search
\* that starts over a non-empty cache file takes the warm path with the
\* file's mapping, without a batch embedding call.
C25_ColdCachePersists ==
    /\ [](\A p \in Procs :
            (/\ loc[p].op = "search"
             /\ loc[p].loaded \in {"absent", "empty"}
             /\ loc[p].embeddings # <<>>
             /\ SaveCompleted(p)) =>
                load_embeddings(file) =
                    [kind |-> "dict", embeddings |-> loc[p].embeddings])
    /\ [][\A p \in Procs :
            (SearchDone(p) /\ pc'[p] = "idle") => file' = file]_vars
    /\ [][\A p \in Procs :
            (/\ pc[p] = "idle"
             /\ loc'[p].op = "search"
             /\ loc'[p].loaded # "none"
             /\ KeysOf(file) # {}) =>
                /\ loc'[p].loaded = "ok"
                /\ pc'[p] = "query"
                /\ loc'[p].embeddings = load_embeddings(file).embeddings
                /\ file' = file]_vars
    /\ [](\A p \in Procs :
            loc[p].loaded = "ok" => (BatchCalls(loc[p]) = <<>> /\ loc[p].wpos = 0))

\* A cold-start search saved a mapping of two entries and then failed in
\* the query embedding call; the cache file holds the mapping.
C25_Witness ==
    /\ SearchDone(1)
    /\ loc[1].loaded = "absent"
    /\ loc[1].out = Raised("ProviderError")
    /\ Len(loc[1].embeddings) = 2
    /\ Len(QueryCalls(loc[1])) = 1
    /\ load_embeddings(file) = [kind |-> "dict", embeddings |-> loc[1].embeddings]

\* C26: a step that inserts, updates or deletes a clip leaves the cache
\* file as it is; every clip in a search result has its id among the keys of
\* the cache file, so a clip the last rebuild did not see is in no result;
\* and the file changes only in the steps of a rebuild_embeddings call or of
\* a search that found the cache missing or empty.
C26_NoIncrementalUpdate ==
    /\ [][store' # store => file' = file]_vars
    /\ [](\A p \in Procs :
            (SearchDone(p) /\ loc[p].out.kind = "results") =>
                \A i \in 1..Len(loc[p].out.results) :
                    loc[p].out.results[i].id \in KeysOf(file))
    /\ [][file' # file =>
            \E p \in Procs :
                /\ pc[p] \in {"embed", "write"}
                /\ loc[p].op = "rebuild" \/ loc[p].loaded \in {"absent", "empty"}]_vars

\* A warm search returned a clip while the store holds another clip, added
\* after the rebuild, that the cache file has no key for.
C26_Witness ==
    /\ SearchDone(1)
    /\ loc[1].loaded = "ok"
    /\ loc[1].via = "cli"
    /\ Len(loc[1].out.results) = 1
    /\ StoreIds(store) \ KeysOf(file) # {}
    /\ file = loc[1].file0

\* C27: a search that loaded a non-empty cache makes no batch call and no
\* write, and the cache file stays what it was when the search began; when
\* it ends it has made exactly one provider call, the query embedding of
\* one text; no step of it changes the store, whose records carry no score.
C27_WarmSearchReadOnly ==
    /\ [](\A p \in Procs :
            (loc[p].op = "search" /\ loc[p].loaded = "ok") =>
                /\ file = loc[p].file0
                /\ loc[p].wpos = 0
                /\ pc[p] = "query" => loc[p].calls = <<>>
                /\ Done(p) => loc[p].calls = <<[kind |-> "query", n |-> 1]>>)
    /\ [](\A i \in 1..Len(store) : DOMAIN store[i] = {"id", "cols"})
    /\ [][\A p \in Procs :
            (loc[p].op = "search" /\ loc[p].loaded = "ok" /\ pc[p] = "query") =>
                (store' = store /\ file' = file)]_vars

\* A warm search returned two scored clips; one provider call was made and
\* the cache file is the one the search found.
C27_Witness ==
    /\ SearchDone(1)
    /\ loc[1].loaded = "ok"
    /\ Len(loc[1].out.results) = 2
    /\ loc[1].calls = <<[kind |-> "query", n |-> 1]>>
    /\ loc[1].file0.exists
    /\ file = loc[1].file0
    /\ \A i \in 1..2 : "similarity_score" \in DOMAIN loc[1].out.results[i]

\* C28 as stated: a search rebuilds exactly when the loaded cache is absent
\* or empty, and a search that returns while the store is empty has rebuilt,
\* saving an empty mapping without a batch call.
C28_EmptyStoreAlwaysRebuilds ==
    \A p \in Procs :
        (SearchDone(p) /\ loc[p].out.kind = "results") =>
            /\ SaveCompleted(p) <=> loc[p].loaded \in {"absent", "empty"}
            /\ store = <<>> =>
                  /\ SaveCompleted(p)
                  /\ loc[p].embeddings = <<>>
                  /\ BatchCalls(loc[p]) = <<>>

\* C28 amended: a search goes into the rebuild exactly when the cache file
\* is missing or holds an empty mapping; such a search has saved its mapping
\* before it embeds the query, and over an empty store the mapping saved is
\* empty and no batch call is made; a search that loaded a non-empty
\* mapping fetches no clips, makes no batch call and writes nothing,
\* whatever the store holds (nothing at all included).
C28_RebuildIffNoEntries ==
    /\ [][\A p \in Procs :
            (pc[p] = "idle" /\ loc'[p].op = "search" /\ loc'[p].loaded # "none") =>
                /\ pc'[p] = "generate" <=> load_embeddings(file).embeddings = <<>>
                /\ pc'[p] = "query" <=> load_embeddings(file).embeddings # <<>>
                /\ loc'[p].loaded = "ok" <=> load_embeddings(file).embeddings # <<>>]_vars
    /\ [](\A p \in Procs :
            loc[p].op = "search" =>
                /\ pc[p] \in {"generate", "embed", "write"} =>
                      loc[p].loaded \in {"absent", "empty"}
                /\ (loc[p].loaded \in {"absent", "empty"} /\
                    (pc[p] = "query" \/ QueryCalls(loc[p]) # <<>>)) =>
                      /\ SaveCompleted(p)
                      /\ load_embeddings(file) =
                            [kind |-> "dict", embeddings |-> loc[p].embeddings]
                      /\ store = <<>> =>
                            (loc[p].embeddings = <<>> /\ BatchCalls(loc[p]) = <<>>)
                /\ loc[p].loaded = "ok" =>
                      /\ loc[p].keys0 # {}
                      /\ loc[p].clip_ids = <<>>
                      /\ BatchCalls(loc[p]) = <<>>
                      /\ loc[p].wpos = 0)

\* Over an empty store a search found the empty mapping an earlier search
\* had saved, and rebuilt again: an empty mapping saved, no batch call.
C28_Witness ==
    /\ SearchDone(1)
    /\ store = <<>>
    /\ loc[1].loaded = "empty"
    /\ loc[1].out.kind = "results"
    /\ SaveCompleted(1)
    /\ BatchCalls(loc[1]) = <<>>
    /\ load_embeddings(file) = [kind |-> "dict", embeddings |-> <<>>]

\* C29: once the provider has answered the batch with one vector per text,
\* in order, the texts of the batch are the projections of the store's
\* records in store order, and the mapping has exactly one entry per store
\* record, in the same order, holding the vector returned at the position
\* of that record's text.
C29_PositionalAlignment ==
    \A p \in Procs :
        (pc[p] = "write" \/ SaveCompleted(p)) /\ loc[p].loaded # "ok" =>
            /\ Len(loc[p].response) = Len(loc[p].texts)
            /\ Len(loc[p].embeddings) = Len(store)
            /\ \A i \in 1..Len(store) :
                  /\ loc[p].texts[i] = get_clip_text_representation(store[i])
                  /\ loc[p].embeddings[i] =
                        [id |-> store[i].id, vec |-> loc[p].response[i]]
            /\ \A id \in StoreIds(store) :
                  Cardinality({i \in 1..Len(loc[p].embeddings) :
                                  loc[p].embeddings[i].id = id}) = 1
            /\ Range(IdsOf(loc[p].embeddings)) = StoreIds(store)

\* A rebuild over two records with different texts got two different
\* vectors back and saved each under the id of its own record.
C29_Witness ==
    /\ RebuildDone(1)
    /\ SaveCompleted(1)
    /\ Len(store) = 2
    /\ loc[1].texts[1] # loc[1].texts[2]
    /\ loc[1].response = <<<<1, 0>>, <<1, 1>>>>
    /\ load_embeddings(file).embeddings =
          <<[id |-> store[1].id, vec |-> <<1, 0>>],
            [id |-> store[2].id, vec |-> <<1, 1>>]>>

\* C30 as stated: for every integer limit top_k, negative ones included,
\* the result list has at most max(top_k, 0) entries and no clip id twice.
C30_ResultBound ==
    Ranked =>
        /\ Len(rank.results) <= (IF rank.top_k > 0 THEN rank.top_k ELSE 0)
        /\ \A i, j \in 1..Len(rank.results) :
              i # j => rank.results[i].id # rank.results[j].id

=============================================================================
